---- MODULE Spec2Model ----
(***************************************************************************)
(* Model of crucigrama.py: the crossword layout generator (Crossword) and  *)
(* the session game built on it (new_game, /state, /answer, /reveal,       *)
(* /reset).                                                                *)
(*                                                                         *)
(* Conventions.  Python's None is the string None ("None"); a text is a    *)
(* sequence of one-character strings; Python's 0-based rows, columns and   *)
(* letter offsets are kept 0-based, while word_id and positions inside a   *)
(* TLA+ sequence are 1-based (word_id k is Python's word_id k-1).  A       *)
(* Placement whose number is still None carries number 0.                  *)
(***************************************************************************)
EXTENDS Integers, Sequences, FiniteSets, TLC

\* Side of the square grid (27 in the program; the model checks small grids).
GRID_SIZE == 3

\* Largest number of (clue, answer) pairs in RAW_ENTRIES.
MaxEntries == 3

None == "None"

Idx == 0 .. (GRID_SIZE - 1)

Orientations == <<"H", "V">>

-----------------------------------------------------------------------------
(* Normalization helpers                                                   *)

\* The characters of the model: upper-case letters, lower-case letters, one
\* precomposed accented letter ("a^", a with an accent), the combining accent
\* itself ("^", category Mn), a space and a digit.
UpperLetters == {"A", "B", "C", "D"}

\* unicodedata.normalize('NFD', ch): a precomposed letter becomes its base
\* letter followed by the combining mark.
NFD(ch) == IF ch = "a^" THEN <<"a", "^">> ELSE <<ch>>

\* unicodedata.category(ch) == 'Mn'
IsMn(ch) == ch = "^"

\* str.upper() of one character
Upper(ch) ==
    CASE ch = "a" -> "A"
      [] ch = "b" -> "B"
      [] ch = "c" -> "C"
      [] ch = "d" -> "D"
      [] OTHER -> ch

RECURSIVE Decompose(_)
Decompose(s) == IF s = <<>> THEN <<>> ELSE NFD(Head(s)) \o Decompose(Tail(s))

RECURSIVE Filter(_, _)
\* ''.join(ch for ch in s if ch in keep)
Filter(s, keep) ==
    IF s = <<>> THEN <<>>
    ELSE (IF Head(s) \in keep THEN <<Head(s)>> ELSE <<>>) \o Filter(Tail(s), keep)

RECURSIVE DropMarks(_)
DropMarks(s) ==
    IF s = <<>> THEN <<>>
    ELSE (IF IsMn(Head(s)) THEN <<>> ELSE <<Head(s)>>) \o DropMarks(Tail(s))

strip_accents(s) == DropMarks(Decompose(s))

normalize_answer(s) ==
    LET u == [i \in 1 .. Len(strip_accents(s)) |-> Upper(strip_accents(s)[i])]
    IN  Filter(u, UpperLetters)

-----------------------------------------------------------------------------
(* Data: clues and answers                                                 *)

\* An answer one letter longer than the grid is wide.
LongAnswer == [i \in 1 .. (GRID_SIZE + 1) |-> "D"]

\* The raw answers RAW_ENTRIES is drawn from: with accents, lower case and
\* spaces, crossing and non-crossing letters, of three, two and one letters,
\* one that normalizes to the empty text and one that does not fit the grid.
Answers ==
    { <<"a^", "b", "C">>,
      <<"D", "B", "D">>,
      <<"C", "B", "A">>,
      <<"A", " ", "d">>,
      <<"c", "C">>,
      <<"b">>,
      <<"1">>,
      LongAnswer }

\* RAW_ENTRIES: a list of (clue, answer); the clue of the k-th pair is k.
EntryLists ==
    UNION { [1 .. n -> Answers] : n \in 1 .. MaxEntries }

\* The RAW_ENTRIES of the sessions played: a layout with crossings and two
\* words starting on one cell; the same answer twice and an empty answer; an
\* entry left unplaced; an answer that does not fit the grid.
SessionLists ==
    { << <<"a^", "b", "C">>, <<"A", " ", "d">>, <<"D", "B", "D">> >>,
      << <<"a^", "b", "C">>, <<"a^", "b", "C">>, <<"1">> >>,
      << <<"a^", "b", "C">>, <<"D", "B", "D">>, <<"C", "B", "A">> >>,
      << LongAnswer >> }

-----------------------------------------------------------------------------
(* Crossword structures                                                    *)

Placement(word_id, row, col, orientation, length) ==
    [word_id |-> word_id, row |-> row, col |-> col,
     orientation |-> orientation, length |-> length, number |-> 0]

\* Placement.cells(), as the sequence of <<row, col>> pairs
cells(p) ==
    [k \in 1 .. p.length |->
        IF p.orientation = "H" THEN <<p.row, p.col + (k - 1)>>
        ELSE <<p.row + (k - 1), p.col>>]

\* list.sort(key=..., reverse=True) on range(len(entries)): a stable sort, so
\* that indices with equal keys keep their order also when reversed.  Insert
\* index i behind every index whose key is at least as large.
\* an insertion in front of the indices with an equal key: the descending
\* sort that reverses the order of ties, as reversing an ascending sort does
RECURSIVE InsertDesc_ties_reversed(_, _, _)
InsertDesc_ties_reversed(sorted, i, key) ==
    IF sorted = <<>> THEN <<i>>
    ELSE IF key[Head(sorted)] > key[i]
         THEN <<Head(sorted)>> \o InsertDesc_ties_reversed(Tail(sorted), i, key)
         ELSE <<i>> \o sorted

RECURSIVE InsertDesc(_, _, _)
InsertDesc(sorted, i, key) ==
    IF sorted = <<>> THEN <<i>>
    ELSE IF key[Head(sorted)] >= key[i]
         THEN <<Head(sorted)>> \o InsertDesc(Tail(sorted), i, key)
         ELSE <<i>> \o sorted

RECURSIVE SortedDesc(_, _)
SortedDesc(n, key) ==
    IF n = 0 THEN <<>> ELSE InsertDesc(SortedDesc(n - 1, key), n, key)

\* Crossword.__init__
Crossword(raw) ==
    LET ents == [k \in 1 .. Len(raw) |->
                    [clue |-> k,
                     answer_original |-> raw[k],
                     answer_norm |-> normalize_answer(raw[k])]]
    IN  [entries |-> ents,
         order |-> SortedDesc(Len(raw), [k \in 1 .. Len(raw) |-> Len(ents[k].answer_norm)]),
         grid |-> [r \in Idx |-> [c \in Idx |-> None]],
         used_mask |-> [r \in Idx |-> [c \in Idx |-> FALSE]],
         placements |-> <<>>]

\* Crossword.can_place.  word[i] of the program is word[i + 1] here.
RECURSIVE ScanSpan(_, _, _, _, _, _, _)
\* the loop over the span from offset i on; ov is the overlap count so far
ScanSpan(grid, word, r, c, ori, i, ov) ==
    IF i >= Len(word) THEN [ok |-> TRUE, ov |-> ov]
    ELSE LET rr == IF ori = "H" THEN r ELSE r + i
             cc == IF ori = "H" THEN c + i ELSE c
             cell == grid[rr][cc]
         IN  IF cell # None /\ cell # word[i + 1] THEN [ok |-> FALSE, ov |-> 0]
             ELSE ScanSpan(grid, word, r, c, ori, i + 1,
                           IF cell = word[i + 1] THEN ov + 1 ELSE ov)

\* can_place without the tests of the cells before and after the span
can_place_no_ends(grid, word, r, c, ori) ==
    LET L == Len(word)
        No == [ok |-> FALSE, ov |-> 0]
    IN  IF ori = "H"
        THEN IF c < 0 \/ c + L > GRID_SIZE \/ r < 0 \/ r >= GRID_SIZE THEN No
             ELSE ScanSpan(grid, word, r, c, ori, 0, 0)
        ELSE IF r < 0 \/ r + L > GRID_SIZE \/ c < 0 \/ c >= GRID_SIZE THEN No
             ELSE ScanSpan(grid, word, r, c, ori, 0, 0)

\* can_place without the test for a differing letter on the span
can_place_no_conflict(grid, word, r, c, ori) ==
    LET L == Len(word)
        No == [ok |-> FALSE, ov |-> 0]
        inside == IF ori = "H"
                  THEN ~(c < 0 \/ c + L > GRID_SIZE \/ r < 0 \/ r >= GRID_SIZE)
                  ELSE ~(r < 0 \/ r + L > GRID_SIZE \/ c < 0 \/ c >= GRID_SIZE)
        rr(i) == IF ori = "H" THEN r ELSE r + i
        cc(i) == IF ori = "H" THEN c + i ELSE c
    IN  IF ~inside THEN No
        ELSE IF rr(-1) >= 0 /\ cc(-1) >= 0 /\ grid[rr(-1)][cc(-1)] # None THEN No
        ELSE IF rr(L) < GRID_SIZE /\ cc(L) < GRID_SIZE /\ grid[rr(L)][cc(L)] # None THEN No
        ELSE [ok |-> TRUE,
              ov |-> Cardinality({i \in 0 .. (L - 1) : grid[rr(i)][cc(i)] = word[i + 1]})]

can_place(grid, word, r, c, ori) ==
    LET L == Len(word)
        No == [ok |-> FALSE, ov |-> 0]
    IN  IF ori = "H"
        THEN IF c < 0 \/ c + L > GRID_SIZE \/ r < 0 \/ r >= GRID_SIZE THEN No
             ELSE IF c - 1 >= 0 /\ grid[r][c - 1] # None THEN No
             ELSE IF c + L < GRID_SIZE /\ grid[r][c + L] # None THEN No
             ELSE ScanSpan(grid, word, r, c, ori, 0, 0)
        ELSE IF r < 0 \/ r + L > GRID_SIZE \/ c < 0 \/ c >= GRID_SIZE THEN No
             ELSE IF r - 1 >= 0 /\ grid[r - 1][c] # None THEN No
             ELSE IF r + L < GRID_SIZE /\ grid[r + L][c] # None THEN No
             ELSE ScanSpan(grid, word, r, c, ori, 0, 0)

\* A Python list index: i, or i + len for a negative i; out of range otherwise.
InRange(i) == i >= -GRID_SIZE /\ i < GRID_SIZE
PyIndex(i) == IF i < 0 THEN i + GRID_SIZE ELSE i

\* Crossword.place.  The loop writes the letters one by one; an index outside
\* the lists raises IndexError at that letter, the letters before it stay
\* written and the Placement is not appended.
\* the write loop advancing row and column together, whatever the orientation
RECURSIVE WriteSpan_diagonal(_, _, _, _, _, _)
WriteSpan_diagonal(cw, word, r, c, ori, i) ==
    IF i >= Len(word) THEN [cw |-> cw, raised |-> FALSE]
    ELSE LET rr == r + i
             cc == c + i
         IN  IF ~(InRange(rr) /\ InRange(cc)) THEN [cw |-> cw, raised |-> TRUE]
             ELSE WriteSpan_diagonal(
                    [cw EXCEPT !.grid[PyIndex(rr)][PyIndex(cc)] = word[i + 1],
                               !.used_mask[PyIndex(rr)][PyIndex(cc)] = TRUE],
                    word, r, c, ori, i + 1)

RECURSIVE WriteSpan(_, _, _, _, _, _)
WriteSpan(cw, word, r, c, ori, i) ==
    IF i >= Len(word) THEN [cw |-> cw, raised |-> FALSE]
    ELSE LET rr == IF ori = "H" THEN r ELSE r + i
             cc == IF ori = "H" THEN c + i ELSE c
         IN  IF ~(InRange(rr) /\ InRange(cc)) THEN [cw |-> cw, raised |-> TRUE]
             ELSE WriteSpan(
                    [cw EXCEPT !.grid[PyIndex(rr)][PyIndex(cc)] = word[i + 1],
                               !.used_mask[PyIndex(rr)][PyIndex(cc)] = TRUE],
                    word, r, c, ori, i + 1)

\* place without the write to used_mask
place_no_mask(cw, word_id, r, c, ori) ==
    LET word == cw.entries[word_id].answer_norm
        w == WriteSpan(cw, word, r, c, ori, 0)
    IN  IF w.raised THEN [cw |-> [w.cw EXCEPT !.used_mask = cw.used_mask], raised |-> TRUE]
        ELSE [cw |-> [w.cw EXCEPT !.used_mask = cw.used_mask,
                                  !.placements =
                                    Append(@, Placement(word_id, r, c, ori, Len(word)))],
              raised |-> FALSE]

place(cw, word_id, r, c, ori) ==
    LET word == cw.entries[word_id].answer_norm
        w == WriteSpan(cw, word, r, c, ori, 0)
    IN  IF w.raised THEN w
        ELSE [cw |-> [w.cw EXCEPT !.placements =
                        Append(@, Placement(word_id, r, c, ori, Len(word)))],
              raised |-> FALSE]

\* abs() and max()
Abs(x) == IF x < 0 THEN -x ELSE x
Max(x, y) == IF x >= y THEN x ELSE y

\* a >= b instead of a > b: a later candidate of equal score replaces the best
TupleGreaterOrEqual(a, b) == a[1] > b[1] \/ (a[1] = b[1] /\ a[2] >= b[2])

\* Python's comparison a > b of two pairs of integers
TupleGreater(a, b) == a[1] > b[1] \/ (a[1] = b[1] /\ a[2] > b[2])

NoBest == [found |-> FALSE, score |-> <<0, 0>>, r |-> 0, c |-> 0, ori |-> "H"]

\* "if ok: ... if best is None or cand[0] > best[0]: best = cand" for the
\* candidate of word at (r, c, ori)
Consider(grid, word, best, r, c, ori) ==
    LET res == can_place(grid, word, r, c, ori)
        score == <<res.ov, -Abs(r - GRID_SIZE \div 2) - Abs(c - GRID_SIZE \div 2)>>
    IN  IF res.ok /\ (~best.found \/ TupleGreater(score, best.score))
        THEN [found |-> TRUE, score |-> score, r |-> r, c |-> c, ori |-> ori]
        ELSE best

\* The crossing search of generate: the loops over r, c and j, flattened in
\* their order into k = (r * GRID_SIZE + c) * len(word) + j.
RECURSIVE CrossingSearch(_, _, _, _)
CrossingSearch(grid, word, k, best) ==
    IF Len(word) = 0 \/ k >= GRID_SIZE * GRID_SIZE * Len(word) THEN best
    ELSE LET r == k \div (GRID_SIZE * Len(word))
             c == (k \div Len(word)) % GRID_SIZE
             j == k % Len(word)
             cell == grid[r][c]
         IN  IF cell = None \/ word[j + 1] # cell
             THEN CrossingSearch(grid, word, k + 1, best)
             ELSE CrossingSearch(grid, word, k + 1,
                    Consider(grid, word,
                             Consider(grid, word, best, r, c - j, "H"),
                             r - j, c, "V"))

\* the fallback scan with the orientations in the order ('V', 'H')
RECURSIVE FallbackScan_vertical_first(_, _, _)
FallbackScan_vertical_first(grid, word, k) ==
    IF k >= 2 * GRID_SIZE * GRID_SIZE THEN NoBest
    ELSE LET oo == <<"V", "H">>[k \div (GRID_SIZE * GRID_SIZE) + 1]
             r == (k \div GRID_SIZE) % GRID_SIZE
             c == k % GRID_SIZE
         IN  IF can_place(grid, word, r, c, oo).ok
             THEN [found |-> TRUE, score |-> <<0, 0>>, r |-> r, c |-> c, ori |-> oo]
             ELSE FallbackScan_vertical_first(grid, word, k + 1)

\* The fallback scan of generate: all positions as 'H' in row-major order, then
\* all as 'V'; k = (o * GRID_SIZE + r) * GRID_SIZE + c.  The first position
\* that can_place accepts, if any.
RECURSIVE FallbackScan(_, _, _)
FallbackScan(grid, word, k) ==
    IF k >= 2 * GRID_SIZE * GRID_SIZE THEN NoBest
    ELSE LET oo == Orientations[k \div (GRID_SIZE * GRID_SIZE) + 1]
             r == (k \div GRID_SIZE) % GRID_SIZE
             c == k % GRID_SIZE
         IN  IF can_place(grid, word, r, c, oo).ok
             THEN [found |-> TRUE, score |-> <<0, 0>>, r |-> r, c |-> c, ori |-> oo]
             ELSE FallbackScan(grid, word, k + 1)

\* generate's loop body without "if not placed": the fallback scan runs also
\* after the crossing search has placed the word
GenerateWord_always_fallback(cw, idx) ==
    LET word_id == cw.order[idx]
        word == cw.entries[word_id].answer_norm
    IN  IF idx = 1
        THEN place(cw, word_id, GRID_SIZE \div 2,
                   Max(0, (GRID_SIZE - Len(word)) \div 2), "H")
        ELSE LET best == CrossingSearch(cw.grid, word, 0, NoBest)
                 first == IF best.found /\ best.score[1] > 0
                          THEN place(cw, word_id, best.r, best.c, best.ori).cw
                          ELSE cw
                 fb == FallbackScan(first.grid, word, 0)
             IN  IF fb.found THEN place(first, word_id, fb.r, fb.c, fb.ori)
                 ELSE [cw |-> first, raised |-> FALSE]

\* One iteration of the loop of generate, for idx (1-based) in the order.
GenerateWord(cw, idx) ==
    LET word_id == cw.order[idx]
        word == cw.entries[word_id].answer_norm
    IN  IF idx = 1
        THEN place(cw, word_id, GRID_SIZE \div 2,
                   Max(0, (GRID_SIZE - Len(word)) \div 2), "H")
        ELSE LET best == CrossingSearch(cw.grid, word, 0, NoBest)
             IN  IF best.found /\ best.score[1] > 0
                 THEN place(cw, word_id, best.r, best.c, best.ori)
                 ELSE LET fb == FallbackScan(cw.grid, word, 0)
                      IN  IF fb.found THEN place(cw, word_id, fb.r, fb.c, fb.ori)
                          ELSE [cw |-> cw, raised |-> FALSE]

\* placements.sort(key=lambda p: (p.row, p.col)): stable and ascending; insert
\* p behind every placement whose key is not greater.
RECURSIVE InsertByOrigin(_, _)
InsertByOrigin(sorted, p) ==
    IF sorted = <<>> THEN <<p>>
    ELSE IF TupleGreater(<<Head(sorted).row, Head(sorted).col>>, <<p.row, p.col>>)
         THEN <<p>> \o sorted
         ELSE <<Head(sorted)>> \o InsertByOrigin(Tail(sorted), p)

\* no sort at all: the placements stay in the order they were made
SortByOrigin_unsorted(ps) == ps

RECURSIVE SortByOrigin(_)
SortByOrigin(ps) ==
    IF ps = <<>> THEN <<>>
    ELSE InsertByOrigin(SortByOrigin(SubSeq(ps, 1, Len(ps) - 1)), ps[Len(ps)])

\* numbering by origin cell: a placement starting on the cell of the one
\* before it takes its number
RECURSIVE NumberByCell(_)
NumberByCell(ps) ==
    IF ps = <<>> THEN <<>>
    ELSE LET before == NumberByCell(SubSeq(ps, 1, Len(ps) - 1))
             p == ps[Len(ps)]
             n == IF before = <<>> THEN 1
                  ELSE IF before[Len(before)].row = p.row /\ before[Len(before)].col = p.col
                       THEN before[Len(before)].number
                       ELSE before[Len(before)].number + 1
         IN  Append(before, [p EXCEPT !.number = n])

\* "for i, p in enumerate(self.placements, start=1): p.number = i"
NumberInOrder(ps) == [i \in 1 .. Len(ps) |-> [ps[i] EXCEPT !.number = i]]

\* The end of generate: number by reading order.
NumberPlacements(cw) ==
    [cw EXCEPT !.placements = NumberInOrder(SortByOrigin(cw.placements))]

\* Crossword.to_state
to_state(cw) ==
    [grid |-> cw.grid,
     used_mask |-> cw.used_mask,
     placements |->
        [i \in 1 .. Len(cw.placements) |->
            LET p == cw.placements[i]
            IN  [number |-> p.number, row |-> p.row, col |-> p.col,
                 orientation |-> p.orientation, length |-> p.length,
                 clue |-> cw.entries[p.word_id].clue,
                 answer_original |-> cw.entries[p.word_id].answer_original,
                 answer_norm |-> cw.entries[p.word_id].answer_norm]]]

-----------------------------------------------------------------------------
(* Flask app: the session and the request handlers                         *)

\* The revealed matrix new_game stores: hidden on the layout, '#' elsewhere.
new_revealed(state) ==
    [r \in Idx |-> [c \in Idx |-> IF state.used_mask[r][c] THEN None ELSE "#"]]

\* all_solved.  "not revealed[r][c]" holds of None (a letter is never empty).
all_solved(state, revealed) ==
    \A k \in 1 .. Len(state.placements) :
        \A i \in 0 .. (state.placements[k].length - 1) :
            LET p == state.placements[k]
                r == IF p.orientation = "H" THEN p.row ELSE p.row + i
                c == IF p.orientation = "H" THEN p.col + i ELSE p.col
            IN  ~(revealed[r][c] = None \/ revealed[r][c] = "#")

\* int(str(payload.get('number', '')).strip()) on a text of digits, spaces and
\* other characters: the value, or ValueError.
Digits == <<"0", "1", "2", "3", "4", "5", "6", "7", "8", "9">>

DigitValue(ch) == (CHOOSE d \in 1 .. 10 : Digits[d] = ch) - 1

IsDigit(ch) == \E d \in 1 .. 10 : Digits[d] = ch

RECURSIVE Strip(_)
\* str.strip() of the spaces at both ends
Strip(s) ==
    IF s = <<>> THEN s
    ELSE IF Head(s) = " " THEN Strip(Tail(s))
    ELSE IF s[Len(s)] = " " THEN Strip(SubSeq(s, 1, Len(s) - 1))
    ELSE s

RECURSIVE DecimalValue(_)
DecimalValue(s) ==
    IF s = <<>> THEN 0
    ELSE 10 * DecimalValue(SubSeq(s, 1, Len(s) - 1)) + DigitValue(s[Len(s)])

ParseInt(text) ==
    LET t == Strip(text)
    IN  IF t # <<>> /\ \A i \in 1 .. Len(t) : IsDigit(t[i])
        THEN [ok |-> TRUE, value |-> DecimalValue(t)]
        ELSE [ok |-> FALSE, value |-> 0]

\* A response: its route, 'ok', the message (and the answer it quotes) and
\* 'solved'.  Routes without an 'ok' or a 'solved' key carry FALSE there.
Response(kind, ok, message, quoted, solved) ==
    [ok |-> ok, kind |-> kind, message |-> message, solved |-> solved,
     answer |-> quoted]

\* the copy loop on a matrix built anew instead of the session's: the cells
\* off the span are as new_game left them
RevealSpan_fresh(state, revealed, p) ==
    [r \in Idx |-> [c \in Idx |->
        IF \E i \in 0 .. (p.length - 1) :
              IF p.orientation = "H" THEN r = p.row /\ c = p.col + i
              ELSE r = p.row + i /\ c = p.col
        THEN state.grid[r][c]
        ELSE IF state.used_mask[r][c] THEN None ELSE "#"]]

\* the copy loop stopping one cell early: range(length - 1)
RevealSpan_short(state, revealed, p) ==
    [r \in Idx |-> [c \in Idx |->
        IF \E i \in 0 .. (p.length - 2) :
              IF p.orientation = "H" THEN r = p.row /\ c = p.col + i
              ELSE r = p.row + i /\ c = p.col
        THEN state.grid[r][c]
        ELSE revealed[r][c]]]

\* The copy loop of answer: revealed[r][c] = state['grid'][r][c] on the span
RevealSpan(state, revealed, p) ==
    [r \in Idx |-> [c \in Idx |->
        IF \E i \in 0 .. (p.length - 1) :
              IF p.orientation = "H" THEN r = p.row /\ c = p.col + i
              ELSE r = p.row + i /\ c = p.col
        THEN state.grid[r][c]
        ELSE revealed[r][c]]]

\* next((p for p in state['placements'] if p['number'] == number), None):
\* the index of the first such placement, 0 for None
FindPlacement(state, number) ==
    IF \E k \in 1 .. Len(state.placements) : state.placements[k].number = number
    THEN CHOOSE k \in 1 .. Len(state.placements) :
            /\ state.placements[k].number = number
            /\ \A m \in 1 .. (k - 1) : state.placements[m].number # number
    ELSE 0

\* answer with the copy loop before the comparison instead of under it
answer_copy_first(state, revealed, number, guess) ==
    LET parsed == ParseInt(number)
        k == FindPlacement(state, parsed.value)
    IN  IF ~parsed.ok
        THEN [state |-> state, revealed |-> revealed,
              resp |-> Response("answer", FALSE, "Numero invalido", <<>>,
                                all_solved(state, revealed))]
        ELSE IF k = 0
        THEN [state |-> state, revealed |-> revealed,
              resp |-> Response("answer", FALSE, "No existe", <<>>,
                                all_solved(state, revealed))]
        ELSE LET rv == RevealSpan(state, revealed, state.placements[k])
             IN  IF normalize_answer(Strip(guess)) = state.placements[k].answer_norm
                 THEN [state |-> state, revealed |-> rv,
                       resp |-> Response("answer", TRUE, "Correcto",
                                         state.placements[k].answer_original,
                                         all_solved(state, rv))]
                 ELSE [state |-> state, revealed |-> rv,
                       resp |-> Response("answer", FALSE, "Incorrecto", <<>>,
                                         all_solved(state, rv))]

\* answer, on the game get_game returns: the session's state and revealed
\* after the call, and the response.
answer(state, revealed, number, guess) ==
    LET parsed == ParseInt(number)
        k == FindPlacement(state, parsed.value)
    IN  IF ~parsed.ok
        THEN [state |-> state, revealed |-> revealed,
              resp |-> Response("answer", FALSE, "Numero invalido", <<>>,
                                all_solved(state, revealed))]
        ELSE IF k = 0
        THEN [state |-> state, revealed |-> revealed,
              resp |-> Response("answer", FALSE, "No existe", <<>>,
                                all_solved(state, revealed))]
        ELSE IF normalize_answer(Strip(guess)) = state.placements[k].answer_norm
        THEN LET rv == RevealSpan(state, revealed, state.placements[k])
             IN  [state |-> state, revealed |-> rv,
                  resp |-> Response("answer", TRUE, "Correcto",
                                    state.placements[k].answer_original,
                                    all_solved(state, rv))]
        ELSE [state |-> state, revealed |-> revealed,
              resp |-> Response("answer", FALSE, "Incorrecto", <<>>,
                                all_solved(state, revealed))]

\* reveal with loops over range(GRID_SIZE - 1)
reveal_short(state, revealed) ==
    [state |-> state,
     revealed |-> [r \in Idx |-> [c \in Idx |->
                     IF r < GRID_SIZE - 1 /\ c < GRID_SIZE - 1 /\ state.used_mask[r][c]
                     THEN state.grid[r][c]
                     ELSE revealed[r][c]]],
     resp |-> Response("reveal", FALSE, "", <<>>, TRUE)]

\* reveal without the used_mask test
reveal_unmasked(state, revealed) ==
    [state |-> state,
     revealed |-> [r \in Idx |-> [c \in Idx |-> state.grid[r][c]]],
     resp |-> Response("reveal", FALSE, "", <<>>, TRUE)]

\* reveal with the assignment turned round: state['grid'][r][c] = revealed[r][c]
reveal_reversed(state, revealed) ==
    [state |-> [state EXCEPT !.grid =
                    [r \in Idx |-> [c \in Idx |->
                        IF state.used_mask[r][c] THEN revealed[r][c]
                        ELSE state.grid[r][c]]]],
     revealed |-> revealed,
     resp |-> Response("reveal", FALSE, "", <<>>, TRUE)]

\* reveal
reveal(state, revealed) ==
    [state |-> state,
     revealed |-> [r \in Idx |-> [c \in Idx |->
                     IF state.used_mask[r][c] THEN state.grid[r][c]
                     ELSE revealed[r][c]]],
     resp |-> Response("reveal", FALSE, "", <<>>, TRUE)]

\* state
state_route(state, revealed) ==
    [state |-> state, revealed |-> revealed,
     resp |-> Response("state", FALSE, "", <<>>, all_solved(state, revealed))]

\* index
index(state, revealed) ==
    [state |-> state, revealed |-> revealed,
     resp |-> Response("index", FALSE, "", <<>>, FALSE)]

\* reset, after its new_game
reset(state, revealed) ==
    [state |-> state, revealed |-> revealed,
     resp |-> Response("reset", FALSE, "", <<>>, FALSE)]

\* A request: the route and, for answer, the payload.
Request(kind, number, guess) == [number |-> number, kind |-> kind, guess |-> guess]

NoRequest == Request("none", <<>>, <<>>)

\* What a handler does with the game get_game gave it.
Handle(req, state, revealed) ==
    CASE req.kind = "answer" -> answer(state, revealed, req.number, req.guess)
      [] req.kind = "reveal" -> reveal(state, revealed)
      [] req.kind = "state" -> state_route(state, revealed)
      [] req.kind = "index" -> index(state, revealed)
      [] req.kind = "reset" -> reset(state, revealed)

\* The payloads of the model: numbers up to one past the number of entries,
\* one padded with a space, one that is no integer; guesses in other spellings
\* than the answers, one for each answer that fits the grid.
NumberTexts ==
    { <<Digits[n + 1]>> : n \in 0 .. MaxEntries } \cup { <<" ", "2">>, <<"x">> }

Guesses ==
    { <<"A", "b", " ", "c">>,
      <<"d", "B", "D", " ">>,
      <<"C", "B", "A">>,
      <<"a^", "D">>,
      <<>> }

-----------------------------------------------------------------------------
(* The state machine                                                       *)

VARIABLES
    raw_entries,       \* RAW_ENTRIES
    cw,                \* the Crossword new_game is generating, or generated last
    idx,               \* position of generate's loop in cw.order (1-based)
    had_room,          \* word_ids for which can_place accepted some position at their turn
    pc,                \* "idle", or where new_game is: "generate", "generated"
    pending,           \* the request whose handler is inside new_game
    in_session,        \* 'state' in session and 'revealed' in session
    session_state,     \* session['state']
    session_revealed,  \* session['revealed']
    resp               \* the last response

vars == <<raw_entries, cw, idx, had_room, pc, pending, in_session,
          session_state, session_revealed, resp>>

\* No request was served yet: the session is empty.
Started(lists) ==
    /\ raw_entries \in lists
    /\ cw = Crossword(raw_entries)
    /\ idx = 1
    /\ had_room = {}
    /\ pc = "idle"
    /\ pending = NoRequest
    /\ in_session = FALSE
    /\ session_state = to_state(Crossword(<<>>))
    /\ session_revealed = new_revealed(to_state(Crossword(<<>>)))
    /\ resp = Response("none", FALSE, "", <<>>, FALSE)

Init == Started(SessionLists)

\* Serve with one Crossword kept for all games: new_game runs generate on the
\* object of the game before instead of constructing a new one
Serve_reuse(req) ==
    /\ pc = "idle"
    /\ IF req.kind = "reset" \/ ~in_session
       THEN /\ cw' = cw
            /\ idx' = 1
            /\ had_room' = {}
            /\ pc' = "generate"
            /\ pending' = req
            /\ UNCHANGED <<in_session, session_state, session_revealed, resp>>
       ELSE LET h == Handle(req, session_state, session_revealed)
            IN  /\ session_state' = h.state
                /\ session_revealed' = h.revealed
                /\ resp' = h.resp
                /\ UNCHANGED <<cw, idx, had_room, pc, pending, in_session>>
    /\ UNCHANGED raw_entries

\* A request arrives.  get_game calls new_game when the session has no game,
\* and reset calls it always; otherwise the handler runs on the session's game.
Serve(req) ==
    /\ pc = "idle"
    /\ IF req.kind = "reset" \/ ~in_session
       THEN /\ cw' = Crossword(raw_entries)
            /\ idx' = 1
            /\ had_room' = {}
            /\ pc' = "generate"
            /\ pending' = req
            /\ UNCHANGED <<in_session, session_state, session_revealed, resp>>
       ELSE LET h == Handle(req, session_state, session_revealed)
            IN  /\ session_state' = h.state
                /\ session_revealed' = h.revealed
                /\ resp' = h.resp
                /\ UNCHANGED <<cw, idx, had_room, pc, pending, in_session>>
    /\ UNCHANGED raw_entries

Index == Serve(Request("index", <<>>, <<>>))

State == Serve(Request("state", <<>>, <<>>))

Answer(number, guess) == Serve(Request("answer", number, guess))

Reveal == Serve(Request("reveal", <<>>, <<>>))

Reset == Serve(Request("reset", <<>>, <<>>))

\* Some position of the grid passes can_place for the word
HasRoom(grid, word) ==
    \E r \in Idx, c \in Idx, o \in {"H", "V"} : can_place(grid, word, r, c, o).ok

\* One iteration of generate's loop.  An IndexError leaves new_game and the
\* handler: the request fails and the session is as it was.
GenerateStep ==
    /\ pc = "generate"
    /\ idx <= Len(cw.order)
    /\ LET g == GenerateWord(cw, idx)
           word == cw.entries[cw.order[idx]].answer_norm
       IN  /\ cw' = g.cw
           /\ had_room' = IF HasRoom(cw.grid, word)
                          THEN had_room \cup {cw.order[idx]} ELSE had_room
           /\ IF g.raised
              THEN /\ pc' = "idle"
                   /\ pending' = NoRequest
                   /\ resp' = Response("error", FALSE, "IndexError", <<>>, FALSE)
                   /\ UNCHANGED idx
              ELSE /\ idx' = idx + 1
                   /\ UNCHANGED <<pc, pending, resp>>
    /\ UNCHANGED <<raw_entries, in_session, session_state, session_revealed>>

\* The end of generate: sort and number the placements.
GenerateNumber ==
    /\ pc = "generate"
    /\ idx > Len(cw.order)
    /\ cw' = NumberPlacements(cw)
    /\ pc' = "generated"
    /\ UNCHANGED <<raw_entries, idx, had_room, pending, in_session,
                   session_state, session_revealed, resp>>

\* new_game stores the state and the revealed matrix, and the handler that
\* called it goes on.
NewGameReturn ==
    /\ pc = "generated"
    /\ LET h == Handle(pending, to_state(cw), new_revealed(to_state(cw)))
       IN  /\ session_state' = h.state
           /\ session_revealed' = h.revealed
           /\ resp' = h.resp
    /\ in_session' = TRUE
    /\ pc' = "idle"
    /\ pending' = NoRequest
    /\ UNCHANGED <<raw_entries, cw, idx, had_room>>

Next ==
    \/ Index
    \/ State
    \/ \E number \in NumberTexts, guess \in Guesses : Answer(number, guess)
    \/ Reveal
    \/ Reset
    \/ GenerateStep
    \/ GenerateNumber
    \/ NewGameReturn

Spec == Init /\ [][Next]_vars

\* The generator alone, on every entry list of the bounds: the first page
\* view of a session, whose new_game generates the layout.
GenInit == Started(EntryLists)

GenNext ==
    \/ Index
    \/ GenerateStep
    \/ GenerateNumber
    \/ NewGameReturn

GenSpec == GenInit /\ [][GenNext]_vars

-----------------------------------------------------------------------------
(* Properties of the generator                                             *)

\* The letter entry word_id has at offset i (0-based) of its normalized answer
LetterOf(p, i) == cw.entries[p.word_id].answer_norm[i + 1]

\* Two different placements lie on one cell
ShareCell(a, b) ==
    /\ a # b
    /\ \E i \in 1 .. cw.placements[a].length, j \in 1 .. cw.placements[b].length :
          cells(cw.placements[a])[i] = cells(cw.placements[b])[j]

\* C1: at every moment of generate and after it, two placements that lie on
\* the same cell have the same letter there, and the grid holds that letter.
C1_LetterAgreement ==
    \A a \in 1 .. Len(cw.placements), b \in 1 .. Len(cw.placements) :
        a # b =>
            \A i \in 1 .. cw.placements[a].length, j \in 1 .. cw.placements[b].length :
                LET pa == cw.placements[a]
                    pb == cw.placements[b]
                    cell == cells(pa)[i]
                IN  cell = cells(pb)[j] =>
                        /\ LetterOf(pa, i - 1) = LetterOf(pb, j - 1)
                        /\ cw.grid[cell[1]][cell[2]] = LetterOf(pa, i - 1)

\* A word was placed across another one while generate is still running.
C1_Witness ==
    /\ pc = "generate"
    /\ \E a \in 1 .. Len(cw.placements), b \in 1 .. Len(cw.placements) :
          /\ ShareCell(a, b)
          /\ cw.placements[a].orientation # cw.placements[b].orientation

\* C2: at every moment of generate and after it, used_mask is true exactly on
\* the cells of the grid that hold a letter.
C2_MaskConsistency ==
    \A r \in Idx, c \in Idx : cw.used_mask[r][c] <=> (cw.grid[r][c] # None)

\* Two words are placed: some cells are used and some are not.
C2_Witness ==
    /\ Len(cw.placements) >= 2
    /\ \E r \in Idx, c \in Idx : cw.used_mask[r][c]
    /\ \E r \in Idx, c \in Idx : ~cw.used_mask[r][c]

PlacementsOf(word_id) ==
    {k \in 1 .. Len(cw.placements) : cw.placements[k].word_id = word_id}

\* The letters of the grid along the cells of p, in order
ReadGrid(p) == [k \in 1 .. p.length |-> cw.grid[cells(p)[k][1]][cells(p)[k][2]]]

\* C3: after generate no entry has two placements, an entry that had a
\* position accepted by can_place at its turn has exactly one, and the grid
\* reads each placement's normalized answer along its cells.
C3_Completeness ==
    pc = "generated" =>
        /\ \A w \in 1 .. Len(cw.entries) :
              /\ Cardinality(PlacementsOf(w)) <= 1
              /\ w \in had_room => Cardinality(PlacementsOf(w)) = 1
        /\ \A k \in 1 .. Len(cw.placements) :
              ReadGrid(cw.placements[k]) = cw.entries[cw.placements[k].word_id].answer_norm

\* generate has ended with two entries placed, one of them by the crossing
\* search, and a third entry that found no room.
C3_Witness ==
    /\ pc = "generated"
    /\ Len(cw.placements) = 2
    /\ \E a \in 1 .. 2, b \in 1 .. 2 : ShareCell(a, b)
    /\ \E w \in 1 .. Len(cw.entries) : w \notin had_room /\ PlacementsOf(w) = {}

\* Python's (row, col) <= (row, col) on the origins of two placements
OriginLeq(p, q) == p.row < q.row \/ (p.row = q.row /\ p.col <= q.col)

\* C4: after generate the placements are in ascending (row, col) order of
\* their origins and the k-th of them has number k.
C4_NumberingOrder ==
    pc = "generated" =>
        /\ \A k \in 1 .. (Len(cw.placements) - 1) :
              OriginLeq(cw.placements[k], cw.placements[k + 1])
        /\ \A k \in 1 .. Len(cw.placements) : cw.placements[k].number = k

\* Three placements were numbered, and the sort has moved the seed word
\* from the front of the list.
C4_Witness ==
    /\ pc = "generated"
    /\ Len(cw.placements) = 3
    /\ cw.placements[1].word_id # cw.order[1]

\* A Horizontal and a Vertical placement start on one cell
SharedOrigin(p, q) ==
    /\ p.orientation = "H"
    /\ q.orientation = "V"
    /\ p.row = q.row
    /\ p.col = q.col

\* C5 as claimed: after generate, a Horizontal and a Vertical placement that
\* start on the same cell have the same number.
C5_SharedOriginSameNumber ==
    pc = "generated" =>
        \A a \in 1 .. Len(cw.placements), b \in 1 .. Len(cw.placements) :
            SharedOrigin(cw.placements[a], cw.placements[b]) =>
                cw.placements[a].number = cw.placements[b].number

\* C5, amended: after generate, a Horizontal and a Vertical placement that
\* start on the same cell have different numbers.
C5_SharedOriginOwnNumbers ==
    pc = "generated" =>
        \A a \in 1 .. Len(cw.placements), b \in 1 .. Len(cw.placements) :
            SharedOrigin(cw.placements[a], cw.placements[b]) =>
                cw.placements[a].number # cw.placements[b].number

\* generate has ended with an Across and a Down word starting on one cell.
C5_Witness ==
    /\ pc = "generated"
    /\ \E a \in 1 .. Len(cw.placements), b \in 1 .. Len(cw.placements) :
          SharedOrigin(cw.placements[a], cw.placements[b])

-----------------------------------------------------------------------------
(* Properties of the session                                               *)

\* The game get_game hands to the handler that runs in this step: the one
\* new_game has just made, or the session's.
GameState == IF pc = "generated" THEN to_state(cw) ELSE session_state

GameRevealed ==
    IF pc = "generated" THEN new_revealed(to_state(cw)) ELSE session_revealed

\* The step in which the handler of a request runs on its game
Served(req) ==
    \/ pc = "idle" /\ in_session /\ req.kind # "reset" /\ Serve(req)
    \/ pc = "generated" /\ pending = req /\ NewGameReturn

\* The placements of the game that carry the number the text stands for
Named(number) ==
    {k \in 1 .. Len(GameState.placements) :
        /\ ParseInt(number).ok
        /\ GameState.placements[k].number = ParseInt(number).value}

InSpan(p, r, c) ==
    \E i \in 0 .. (p.length - 1) :
        IF p.orientation = "H" THEN r = p.row /\ c = p.col + i
        ELSE r = p.row + i /\ c = p.col

\* C6: a guess whose number names a placement and whose normalized text is
\* that placement's answer_norm sets the cells of the placement's span in
\* revealed to the grid's letters, leaves every other cell of revealed as it
\* was, and answers ok with the placement's original answer text.
C6_CorrectGuess ==
    [][\A number \in NumberTexts, guess \in Guesses :
          \A k \in Named(number) :
              (/\ Served(Request("answer", number, guess))
               /\ normalize_answer(guess) = GameState.placements[k].answer_norm)
              => /\ \A r \in Idx, c \in Idx :
                      session_revealed'[r][c] =
                          IF InSpan(GameState.placements[k], r, c)
                          THEN GameState.grid[r][c]
                          ELSE GameRevealed[r][c]
                 /\ resp'.kind = "answer"
                 /\ resp'.ok = TRUE
                 /\ resp'.answer = GameState.placements[k].answer_original]_vars

\* A guess in another spelling than the answer was accepted: letters show,
\* other cells of the layout are still hidden, and the answer quoted is not
\* the normalized one.
C6_Witness ==
    /\ in_session
    /\ resp.kind = "answer"
    /\ resp.ok
    /\ resp.answer # normalize_answer(resp.answer)
    /\ \E r \in Idx, c \in Idx : session_revealed[r][c] \in UpperLetters
    /\ \E r \in Idx, c \in Idx : session_revealed[r][c] = None

\* C7: a guess that fails (its number is no integer, names no placement, or
\* its normalized text differs from the placement's answer_norm) answers
\* ok = false and leaves revealed as get_game found it.
C7_FailedGuess ==
    [][\A number \in NumberTexts, guess \in Guesses :
          (/\ Served(Request("answer", number, guess))
           /\ \/ ~ParseInt(number).ok
              \/ Named(number) = {}
              \/ \E k \in Named(number) :
                    normalize_answer(guess) # GameState.placements[k].answer_norm)
          => /\ resp'.kind = "answer"
             /\ resp'.ok = FALSE
             /\ session_revealed' = GameRevealed]_vars

\* A wrong guess for an existing number was refused while letters of an
\* earlier guess show.
C7_Witness ==
    /\ in_session
    /\ resp.kind = "answer"
    /\ ~resp.ok
    /\ resp.message = "Incorrecto"
    /\ \E r \in Idx, c \in Idx : session_revealed[r][c] \in UpperLetters
    /\ \E r \in Idx, c \in Idx : session_revealed[r][c] = None

\* C8: reveal-all, from whatever the guesses have left, makes all_solved true
\* of the session, as the solved = true of its response says.
C8_RevealSolves ==
    [][Served(Request("reveal", <<>>, <<>>))
          => /\ resp'.kind = "reveal"
             /\ resp'.solved = TRUE
             /\ all_solved(session_state', session_revealed')]_vars

\* reveal-all has answered on a layout of three words.
C8_Witness ==
    /\ in_session
    /\ resp.kind = "reveal"
    /\ resp.solved
    /\ Len(session_state.placements) = 3
    /\ \E r \in Idx, c \in Idx : session_revealed[r][c] = "#"

\* revealed is '#' exactly off the layout, and on it hidden or the grid's letter
RevealedShape ==
    \A r \in Idx, c \in Idx :
        /\ (session_revealed[r][c] = "#") <=> ~session_state.used_mask[r][c]
        /\ session_state.used_mask[r][c] =>
              session_revealed[r][c] \in {None, session_state.grid[r][c]}

\* C9: new_game leaves every cell of the layout hidden and every other cell
\* '#'; after any guesses, reveals and resets a cell of revealed is '#' exactly
\* where used_mask is false, and every other cell is hidden or shows the
\* grid's letter.
C9_RevealedShape ==
    /\ [](in_session => RevealedShape)
    /\ [][(pc = "generated" /\ pending.kind \in {"index", "state", "reset"})
             => \A r \in Idx, c \in Idx :
                   session_revealed'[r][c] =
                       IF to_state(cw).used_mask[r][c] THEN None ELSE "#"]_vars

\* A guess has uncovered one word of a layout of two: letters,
\* hidden cells and blocked cells are all there.
C9_Witness ==
    /\ in_session
    /\ resp.kind = "answer"
    /\ resp.ok
    /\ \E r \in Idx, c \in Idx : session_revealed[r][c] = "#"
    /\ \E r \in Idx, c \in Idx : session_revealed[r][c] = None
    /\ \E r \in Idx, c \in Idx :
          session_state.used_mask[r][c] /\ session_revealed[r][c] = session_state.grid[r][c]
    /\ Len(session_state.placements) = 2

\* C10: the layout of the session is replaced only when new_game returns, for
\* a reset or for the first request of a session; guesses, reveal-all and
\* get-state leave grid, used_mask and placements as they are.
C10_LayoutFrame ==
    [][IF pc = "generated" /\ (pending.kind = "reset" \/ ~in_session)
       THEN session_state' = to_state(cw)
       ELSE session_state' = session_state]_vars

\* The whole layout was revealed and it is still the one generate made.
C10_Witness ==
    /\ in_session
    /\ resp.kind = "reveal"
    /\ session_state = to_state(cw)
    /\ Len(session_state.placements) = 2
    /\ all_solved(session_state, session_revealed)

-----------------------------------------------------------------------------
(* Properties of the generator: error handling                             *)

\* What the output of to_state says of entry w: the placement records are its
\* only part that names entries (by clue); grid and used_mask hold letters
\* and flags.
NamedInOutput(w) ==
    \E k \in 1 .. Len(to_state(cw).placements) :
        to_state(cw).placements[k].clue = cw.entries[w].clue

\* C11 as claimed: when generate has left an entry without a placement, its
\* output reports that entry.
C11_UnplacedReported ==
    pc = "generated" =>
        \A w \in 1 .. Len(cw.entries) : PlacementsOf(w) = {} => NamedInOutput(w)

\* C12 as claimed: generate never raises, whatever the entry list: no request
\* ends in the IndexError of a write outside the grid.
C12_NeverRaises == resp.kind # "error"

\* C13 as claimed: an answer that normalizes to the empty text is rejected at
\* construction, so generate never runs on an entry list holding one and no
\* placement has length 0.
C13_NoEmptyAnswer ==
    /\ pc \in {"generate", "generated"} =>
          \A w \in 1 .. Len(cw.entries) : cw.entries[w].answer_norm # <<>>
    /\ \A k \in 1 .. Len(cw.placements) : cw.placements[k].length > 0

-----------------------------------------------------------------------------
(* Properties of the generator: determinism                                *)

-----------------------------------------------------------------------------
(* Properties of the generator: the choice of a position                   *)

\* The word of the turn generate is at
TurnWord == cw.entries[cw.order[idx]].answer_norm

\* The step of generate that commits a non-seed word: the placement made
Commits == pc = "generate" /\ idx > 1 /\ Len(cw'.placements) = Len(cw.placements) + 1

Committed == cw'.placements[Len(cw'.placements)]

\* The candidates of the crossing search on the grid before the step: a
\* filled cell (r, c), an offset j of the word with that cell's letter and an
\* orientation, the word starting j cells before (r, c); rank is the place
\* in the order of enumeration (cells row-major, then j, then 'H' before 'V').
Candidate(r, c, j, o) ==
    LET row == IF o = "H" THEN r ELSE r - j
        col == IF o = "H" THEN c - j ELSE c
    IN  [row |-> row, col |-> col, orientation |-> o,
         overlaps |-> can_place(cw.grid, TurnWord, row, col, o).ov,
         distance |-> Abs(row - GRID_SIZE \div 2) + Abs(col - GRID_SIZE \div 2),
         rank |-> ((r * GRID_SIZE + c) * Len(TurnWord) + j) * 2
                    + (IF o = "H" THEN 0 ELSE 1)]

LegalCandidates ==
    {Candidate(q[1], q[2], q[3], q[4]) :
        q \in {x \in Idx \X Idx \X (0 .. (Len(TurnWord) - 1)) \X {"H", "V"} :
                  /\ cw.grid[x[1]][x[2]] = TurnWord[x[3] + 1]
                  /\ can_place(cw.grid, TurnWord,
                               IF x[4] = "H" THEN x[1] ELSE x[1] - x[3],
                               IF x[4] = "H" THEN x[2] - x[3] ELSE x[2], x[4]).ok}}

\* a comes before b: more overlaps, then nearer to the centre, then earlier
Preferred(a, b) ==
    \/ a.overlaps > b.overlaps
    \/ a.overlaps = b.overlaps /\ a.distance < b.distance
    \/ a.overlaps = b.overlaps /\ a.distance = b.distance /\ a.rank <= b.rank

\* C15: when a non-seed word has a legal candidate crossing a letter of the
\* grid, the placement committed is the candidate with the most overlaps,
\* among those the one whose origin is nearest (Manhattan) to the centre cell,
\* and among those the first enumerated.
C15_BestCandidate ==
    [][(pc = "generate" /\ idx > 1 /\ idx <= Len(cw.order) /\ LegalCandidates # {})
          => /\ Len(cw'.placements) = Len(cw.placements) + 1
             /\ \E best \in LegalCandidates :
                   /\ \A other \in LegalCandidates : Preferred(best, other)
                   /\ Committed.row = best.row
                   /\ Committed.col = best.col
                   /\ Committed.orientation = best.orientation
                   /\ Committed.word_id = cw.order[idx]]_vars

\* The third word, of two letters, went down from the first letter of the
\* seed: one overlap like the candidates across the top and the bottom letter
\* of the word down column 1, of which one was enumerated before it, but
\* nearer to the centre.
C15_Witness ==
    /\ pc = "generate"
    /\ Len(cw.placements) = 3
    /\ cw.placements[2].orientation = "V"
    /\ cw.placements[2].row = 0
    /\ cw.placements[2].col = 1
    /\ cw.placements[2].length = 3
    /\ cw.placements[3].orientation = "V"
    /\ cw.placements[3].row = 1
    /\ cw.placements[3].col = 0
    /\ cw.placements[3].length = 2
    /\ cw.grid[0][1] = cw.grid[2][0]

\* Some position of the grid passes can_place for the word with an overlap
Crossable(grid, word) ==
    \E r \in Idx, c \in Idx, o \in {"H", "V"} :
        can_place(grid, word, r, c, o).ok /\ can_place(grid, word, r, c, o).ov >= 1

\* (r, c) comes before (r2, c2) in row-major order
RowMajorBefore(r, c, r2, c2) == r < r2 \/ (r = r2 /\ c < c2)

\* (r, c) is the first position in row-major order that passes can_place as o
FirstPassing(grid, word, r, c, o) ==
    /\ can_place(grid, word, r, c, o).ok
    /\ \A r2 \in Idx, c2 \in Idx :
          RowMajorBefore(r2, c2, r, c) => ~can_place(grid, word, r2, c2, o).ok

\* C16: a non-seed word is committed with no overlap only when no position of
\* the grid passes can_place with an overlap in either orientation; it then
\* lies on the first position in row-major order that passes as Horizontal,
\* or, if none passes as Horizontal, on the first that passes as Vertical.
C16_FallbackOnlyWithoutCrossing ==
    [][(Commits /\ can_place(cw.grid, TurnWord, Committed.row, Committed.col,
                             Committed.orientation).ov = 0)
          => /\ ~Crossable(cw.grid, TurnWord)
             /\ \/ /\ Committed.orientation = "H"
                   /\ FirstPassing(cw.grid, TurnWord, Committed.row, Committed.col, "H")
                \/ /\ Committed.orientation = "V"
                   /\ \A r \in Idx, c \in Idx : ~can_place(cw.grid, TurnWord, r, c, "H").ok
                   /\ FirstPassing(cw.grid, TurnWord, Committed.row, Committed.col, "V")]_vars

\* A word of two letters lies alone in the top row, off the seed.
C16_Witness ==
    /\ pc = "generate"
    /\ Len(cw.placements) = 2
    /\ cw.placements[2].length = 2
    /\ cw.placements[2].row = 0
    /\ cw.placements[2].orientation = "H"
    /\ \A a \in 1 .. 2, b \in 1 .. 2 : ~ShareCell(a, b)

-----------------------------------------------------------------------------
(* Properties of the generator: words on one line                          *)

\* Placements p and q have the same orientation and lie on the same row
\* (Horizontal) or column (Vertical)
Collinear(p, q) ==
    /\ p.orientation = q.orientation
    /\ IF p.orientation = "H" THEN p.row = q.row ELSE p.col = q.col

\* q starts on the cell that follows the last cell of p
StartsBehind(p, q) ==
    IF p.orientation = "H" THEN q.col = p.col + p.length
    ELSE q.row = p.row + p.length

\* C17: no two placements of the same orientation on the same line are end to
\* end: none starts on the cell that follows the last cell of the other.  (A
\* placement of length 0 has no last cell, so nothing can follow it.)
C17_NoEndToEnd ==
    \A a \in 1 .. Len(cw.placements), b \in 1 .. Len(cw.placements) :
        LET p == cw.placements[a]
            q == cw.placements[b]
        IN  (a # b /\ p.length > 0 /\ Collinear(p, q)) => ~StartsBehind(p, q)

\* A one-letter word found no crossing and went to the bottom row: the free
\* cell behind the two-letter word of the top row, which comes first in the
\* fallback scan, was refused.
C17_Witness ==
    \E a \in 1 .. Len(cw.placements), b \in 1 .. Len(cw.placements) :
        LET p == cw.placements[a]
            q == cw.placements[b]
        IN  /\ p.orientation = "H" /\ p.row = 0 /\ p.col = 0 /\ p.length = 2
            /\ q.orientation = "H" /\ q.row = 2 /\ q.col = 0 /\ q.length = 1
            /\ cw.grid[0][2] = None
            /\ cw.grid[0][1] # cw.grid[2][0]

\* The normalized answers are non-empty and no two are the same
DistinctAnswers ==
    /\ \A w \in 1 .. Len(cw.entries) : cw.entries[w].answer_norm # <<>>
    /\ \A v \in 1 .. Len(cw.entries), w \in 1 .. Len(cw.entries) :
          v # w => cw.entries[v].answer_norm # cw.entries[w].answer_norm

\* C20: when the normalized answers are non-empty and pairwise distinct, two
\* placements that share a cell have different orientations.
C20_SharedCellCrosses ==
    DistinctAnswers =>
        \A a \in 1 .. Len(cw.placements), b \in 1 .. Len(cw.placements) :
            ShareCell(a, b) =>
                cw.placements[a].orientation # cw.placements[b].orientation

\* Three different answers are placed and numbered, each sharing a cell with
\* another one.
C20_Witness ==
    /\ pc = "generated"
    /\ DistinctAnswers
    /\ Len(cw.placements) = 3
    /\ \A a \in 1 .. 3 : \E b \in 1 .. 3 : ShareCell(a, b)

-----------------------------------------------------------------------------
(* Properties of the generator: the order of the words and the seed        *)

NormLen(w) == Len(cw.entries[w].answer_norm)

\* The turn of entry w in the processing order
TurnOf(w) == CHOOSE i \in 1 .. Len(cw.order) : cw.order[i] = w

\* C18: generate takes the entries by decreasing length of the normalized
\* answer, entries of equal length in the order of the input: the order holds
\* every entry once, an earlier turn has a longer answer or an equally long one
\* of an earlier entry, and the placements made so far belong to turns already
\* taken and were made in the order of the turns.
C18_ProcessingOrder ==
    pc = "generate" =>
        /\ Len(cw.order) = Len(cw.entries)
        /\ {cw.order[i] : i \in 1 .. Len(cw.order)} = 1 .. Len(cw.entries)
        /\ \A i \in 1 .. Len(cw.order), j \in 1 .. Len(cw.order) :
              i < j => \/ NormLen(cw.order[i]) > NormLen(cw.order[j])
                       \/ /\ NormLen(cw.order[i]) = NormLen(cw.order[j])
                          /\ cw.order[i] < cw.order[j]
        /\ \A k \in 1 .. Len(cw.placements) : TurnOf(cw.placements[k].word_id) < idx
        /\ \A k \in 1 .. Len(cw.placements), l \in 1 .. Len(cw.placements) :
              k < l => TurnOf(cw.placements[k].word_id) < TurnOf(cw.placements[l].word_id)

\* The shortest answer came first in the input and two equally long ones
\* after it: all three are placed, the second entry as the seed.
C18_Witness ==
    /\ pc = "generate"
    /\ cw.order = <<2, 3, 1>>
    /\ NormLen(2) = NormLen(3)
    /\ idx = 4
    /\ Len(cw.placements) = 3
    /\ cw.placements[1].word_id = 2

\* The turn of the first word of the processing order
SeedTurn == pc = "generate" /\ idx = 1 /\ idx <= Len(cw.order)

\* The column that centres a word of length L, or 0 when it is longer than
\* the grid
Centred(L) == IF GRID_SIZE - L < 0 THEN 0 ELSE (GRID_SIZE - L) \div 2

\* C19: the first word of the processing order is always placed Horizontal at
\* row N / 2 and column max(0, (N - length) / 2), whatever the grid allows, and
\* no word is placed before it: its turn starts without a placement and ends
\* with exactly this one.
C19_SeedPlaced ==
    [][SeedTurn =>
          /\ cw.placements = <<>>
          /\ Len(cw'.placements) = 1
          /\ cw'.placements[1].word_id = cw.order[1]
          /\ cw'.placements[1].orientation = "H"
          /\ cw'.placements[1].row = GRID_SIZE \div 2
          /\ cw'.placements[1].col = Centred(NormLen(cw.order[1]))]_vars

-----------------------------------------------------------------------------
(* Properties of the session: one game                                     *)

\* The step in which a handler other than reset runs on its game
GameStep ==
    \/ pc = "idle" /\ in_session /\ pc' = "idle"
    \/ pc = "generated" /\ pending.kind # "reset"

\* The cell shows a letter: it is neither hidden nor '#'
Shows(revealed, r, c) == revealed[r][c] # None /\ revealed[r][c] # "#"

\* C21: within one game a guess or a reveal-all (or any request but reset)
\* leaves the layout as it is and every cell of revealed that shows a letter
\* as it is, so that the shown cells only grow; and when all_solved held of
\* the game before the request it holds after it.
C21_RevealedOnlyGrows ==
    [][GameStep =>
          /\ session_state' = GameState
          /\ \A r \in Idx, c \in Idx :
                Shows(GameRevealed, r, c) =>
                    session_revealed'[r][c] = GameRevealed[r][c]
          /\ all_solved(GameState, GameRevealed) =>
                all_solved(session_state', session_revealed')]_vars

\* A guess with the right text has answered on a layout of three words that
\* a reveal-all or earlier guesses had solved before: every cell of the layout
\* still shows the grid's letter.
C21_Witness ==
    /\ in_session
    /\ pc = "idle"
    /\ resp.kind = "answer"
    /\ resp.ok
    /\ resp.solved
    /\ Len(session_state.placements) = 3
    /\ \A r \in Idx, c \in Idx :
          session_state.used_mask[r][c] =>
              session_revealed[r][c] = session_state.grid[r][c]
    /\ \E r \in Idx, c \in Idx : session_revealed[r][c] = "#"

-----------------------------------------------------------------------------
(* Properties of the generator: one region                                 *)

\* The cells of the grid that hold a letter
Occupied == {rc \in Idx \X Idx : cw.grid[rc[1]][rc[2]] # None}

\* Two cells side by side in a row or a column
Adjacent(a, b) == Abs(a[1] - b[1]) + Abs(a[2] - b[2]) = 1

\* The cells of S reached from the cells of R by steps between adjacent cells
RECURSIVE Region(_, _)
Region(S, R) ==
    LET more == {x \in S \ R : \E y \in R : Adjacent(x, y)}
    IN  IF more = {} THEN R ELSE Region(S, R \cup more)

\* S is one 4-connected region
Connected(S) == S # {} /\ Region(S, {CHOOSE x \in S : TRUE}) = S

\* The grid as it was at the turn of the k-th placement made: the letters on
\* the spans of the placements made before it
GridBefore(k) ==
    [r \in Idx |-> [c \in Idx |->
        IF \E m \in 1 .. (k - 1) : InSpan(cw.placements[m], r, c)
        THEN cw.grid[r][c] ELSE None]]

\* The k-th placement made was committed by the crossing search: on the grid
\* of its turn the search had a best candidate with an overlap
ViaCrossing(k) ==
    LET best == CrossingSearch(GridBefore(k),
                               cw.entries[cw.placements[k].word_id].answer_norm,
                               0, NoBest)
    IN  best.found /\ best.score[1] > 0

\* Every turn taken so far has made a placement, every placement but the
\* seed's by the crossing search, and no normalized answer is empty
AllCrossed ==
    /\ pc = "generate"
    /\ \A w \in 1 .. Len(cw.entries) : cw.entries[w].answer_norm # <<>>
    /\ Len(cw.placements) = idx - 1
    /\ Len(cw.placements) >= 1
    /\ \A k \in 2 .. Len(cw.placements) : ViaCrossing(k)

\* C22: when no normalized answer is empty and every entry after the seed was
\* committed by the crossing search (none by the fallback scan, none left
\* out), the cells that hold a letter are, after each commit, one 4-connected
\* region.
C22_OneRegion == AllCrossed => Connected(Occupied)

\* The seed and two crossings are on the grid: six cells or more hold a
\* letter, and a cell of the grid is still empty.
C22_Witness ==
    /\ AllCrossed
    /\ idx = 4
    /\ Len(cw.placements) = 3
    /\ Occupied # Idx \X Idx
    /\ Cardinality(Occupied) >= 6

====
